---- MODULE Spec2Model ----
(***************************************************************************)
(* Flight schedule import and flight-plan update alerts (Google Apps       *)
(* Script).  The module models                                             *)
(*   - the status engine: FLIGHT_UPDATE_STATUS and HOURS_UNTIL_DEPARTURE   *)
(*     of flight-update-alerts.js and calculateFlightUpdateStatus of the   *)
(*     script variant that writes the status column itself;                *)
(*   - the periodic alert check: checkUrgentFlightUpdates (both variants)  *)
(*     and sendUrgentUpdateAlert;                                          *)
(*   - the snapshot diff: detectAndHighlightChanges and createRowKey;      *)
(*   - the feed parser: parseScheduleData with CONFIG.headerAliases;       *)
(*   - the import: filterDataByDate, normalizeDate, importScheduleData     *)
(*     and sortDataByColumnB.                                              *)
(*                                                                         *)
(* Time.  The code computes in floating-point hours.  A time of day has    *)
(* minute resolution (getUTCHours() + getUTCMinutes()/60) and the code's   *)
(* literals have three decimals (7.167, 4.083), so every quantity is an    *)
(* exact multiple of 1/3000 hour.  The model computes in that unit: one    *)
(* minute is 50 units, one thousandth of an hour is 3 units.  Comparisons  *)
(* are therefore the exact comparisons of the real numbers the code        *)
(* writes, without the rounding error of the doubles.                      *)
(***************************************************************************)
EXTENDS Integers, Sequences, FiniteSets, TLC

VARIABLES
  \* one call of a function: the status engine, createRowKey and the parser
  fn,        \* the function that was called, "none" before the call
  args,      \* the arguments of the call (the cells the formula reads)
  ret,       \* the value returned
  \* alert check
  sheets,    \* the spreadsheet: a sequence of sheets, each with its rows
  clock,     \* the script's time zone and the instant of the last check
  mail,      \* what the last check sent
  \* snapshot diff
  oldData,   \* rows 2.. of the retired sheet, columns A-G
  newData,   \* rows 2.. of the new sheet, columns A-G
  diff       \* what detectAndHighlightChanges reported

statusVars == <<fn, args, ret>>
alertVars  == <<sheets, clock, mail>>
diffVars   == <<oldData, newData, diff>>
vars       == <<fn, args, ret, sheets, clock, mail, oldData, newData, diff>>

-----------------------------------------------------------------------------
(* Units *)

\* minutes (of a day, or since the epoch) as units of 1/3000 hour
MinUnits(m) == 50 * m
\* a decimal literal of the code, given in thousandths of an hour
Milli(k) == 3 * k
\* whole hours
HourUnits(h) == 3000 * h
MinutesPerDay == 1440

-----------------------------------------------------------------------------
(* Cell values *)

\* A cell as the script sees it: an empty cell (""), a text string that is
\* neither a date nor a time, a number (for a time: the fraction of a day,
\* kept as the minute it denotes), or a Date object (for a date: the instant
\* in minutes since the epoch; for a time: the UTC minute of the day).
EmptyCell       == [k |-> "empty",  v |-> 0]
TextCell        == [k |-> "text",   v |-> 0]
NumberCell(m)   == [k |-> "number", v |-> m]
DateCell(m)     == [k |-> "date",   v |-> m]
\* the Date of midnight UTC of day d
DayCell(d)      == DateCell(d * MinutesPerDay)

\* JavaScript truthiness of a cell value: "" and the number 0 are falsy,
\* a non-empty string and every Date object are truthy.
Truthy(c) == ~ (c.k = "empty" \/ (c.k = "number" /\ c.v = 0))

-----------------------------------------------------------------------------
(* Status strings *)

urgentKeyword == "ATNAUJINTI DABAR!!!!"
Satisfied     == ":)"
TooFar        == "TOLI"
ActionDue     == "ATNAUJINTI"
PendingPrefix == "ATNAUJINTI UZ "
PendingSuffix == " VAL"
ErrorPrefix   == "ERROR: "

\* Number.prototype.toFixed(1) of a non-negative quantity given in units:
\* the nearest tenth of an hour, printed with one decimal.
\* toFixed(1) cutting the digits off instead of rounding
TenthsTruncated(u) == u \div 300
Tenths(u)  == (u + 150) \div 300
toFixed1(u) == ToString(Tenths(u) \div 10) \o "." \o ToString(Tenths(u) % 10)

\* String.prototype.includes
Includes(s, k) ==
  \E i \in 1..(Len(s) - Len(k) + 1) : SubSeq(s, i, i + Len(k) - 1) = k

-----------------------------------------------------------------------------
(* Status engine *)

\* `x instanceof Date ? x : new Date(x)` gives an Invalid Date for an empty
\* string and for text that is no date; arithmetic on it gives NaN.
InvalidDate(c) == c.k # "date"

\* Math.floor((fDate - tDate) / (1000 * 60 * 60 * 24)); NaN when a date is
\* invalid (the callers test daysDiffNaN before they read the number).
daysDiffNaN(flightDate, todayDate) == InvalidDate(flightDate) \/ InvalidDate(todayDate)
daysDiff(flightDate, todayDate) ==
  IF daysDiffNaN(flightDate, todayDate) THEN 0
  ELSE (flightDate.v - todayDate.v) \div MinutesPerDay

\* Hours of a time value read in UTC: a number is a fraction of a day
\* (t * 24), a Date gives getUTCHours() + getUTCMinutes() / 60, anything
\* else leaves the initial 0.
utcHours(t) ==
  IF t.k = "number" THEN MinUnits(t.v)
  ELSE IF t.k = "date" THEN MinUnits(t.v % MinutesPerDay)
  ELSE 0

\* Hours of a time value where a Date is read with getHours() and
\* getMinutes(), i.e. in the script's time zone (offset tz minutes from UTC).
localHours(t, tz) ==
  IF t.k = "number" THEN MinUnits(t.v)
  ELSE IF t.k = "date" THEN MinUnits((t.v + tz) % MinutesPerDay)
  ELSE 0

\* the hour difference wrapped at 24 instead of added to the days
hoursUntilWrapped(dd, stdHours, currentHours) == (stdHours - currentHours) % HourUnits(24)

\* const hoursUntil = (daysDiff * 24) + (stdHours - currentHours)
hoursUntil(dd, stdHours, currentHours) == HourUnits(dd * 24) + (stdHours - currentHours)

\* "Determine update window based on STD time": the if / else-if chain.
updateHour(stdHours) ==
  IF stdHours >= Milli(7167) /\ stdHours < Milli(13167) THEN Milli(4083)
  ELSE IF stdHours >= Milli(13167) /\ stdHours < Milli(19167) THEN Milli(10083)
  ELSE IF stdHours >= Milli(19167) THEN Milli(16083)
  ELSE IF stdHours < Milli(1167) THEN Milli(16083)
  ELSE Milli(22083)

\* "Check if we're in update window"
windowStatus(stdHours, currentHours) ==
  IF currentHours >= updateHour(stdHours) THEN ActionDue
  ELSE PendingPrefix \o toFixed1(updateHour(stdHours) - currentHours) \o PendingSuffix

\* URGENT: `hoursUntil < 3 && hoursUntil >= 0` (false for NaN)
isUrgent(nan, hu) == ~nan /\ hu < HourUnits(3) /\ hu >= 0

\* the too-far test without its `daysDiff > 0` half
isTooFarByHoursOnly(nan, hu, dd) == ~nan /\ hu > HourUnits(24)

\* TOO FAR: `hoursUntil > 24 || daysDiff > 0` (false for NaN)
isTooFar(nan, hu, dd) == ~nan /\ (hu > HourUnits(24) \/ dd > 0)

\* The part both status functions share, from hoursUntil to the return.
statusFromHours(nan, dd, stdHours, currentHours) ==
  LET hu == hoursUntil(dd, stdHours, currentHours) IN
  IF isUrgent(nan, hu) THEN urgentKeyword
  ELSE IF isTooFar(nan, hu, dd) THEN TooFar
  ELSE windowStatus(stdHours, currentHours)

\* the updated indicator compared with the capital letter only
FLIGHT_UPDATE_STATUS_CapitalOnly(flightDate, stdTime, updatedIndicator, todayDate, currentTime) ==
  IF ~Truthy(flightDate) \/ ~Truthy(stdTime) THEN Satisfied
  ELSE IF updatedIndicator = "Y" THEN Satisfied
  ELSE statusFromHours(daysDiffNaN(flightDate, todayDate),
                       daysDiff(flightDate, todayDate),
                       utcHours(stdTime), utcHours(currentTime))

\* flight-update-alerts.js: the custom function of the status column.
\* Nothing in the try block throws, so the catch (the "ERROR: " return) is
\* never taken.
FLIGHT_UPDATE_STATUS(flightDate, stdTime, updatedIndicator, todayDate, currentTime) ==
  IF ~Truthy(flightDate) \/ ~Truthy(stdTime) THEN Satisfied
  ELSE IF updatedIndicator = "Y" \/ updatedIndicator = "y" THEN Satisfied
  ELSE statusFromHours(daysDiffNaN(flightDate, todayDate),
                       daysDiff(flightDate, todayDate),
                       utcHours(stdTime), utcHours(currentTime))

\* The variant of the alert script that computes the status itself: no
\* updated indicator, and the STD Date is read in the script's time zone.
calculateFlightUpdateStatus(flightDate, stdTime, todayDate, currentTime, tz) ==
  IF ~Truthy(flightDate) \/ ~Truthy(stdTime) THEN Satisfied
  ELSE statusFromHours(daysDiffNaN(flightDate, todayDate),
                       daysDiff(flightDate, todayDate),
                       localHours(stdTime, tz), utcHours(currentTime))

\* HOURS_UNTIL_DEPARTURE: a time that is neither a number nor a Date has no
\* getUTCHours method, the call throws and the catch returns -1.
\* The result is [nan, v]: NaN, or v units.
HOURS_UNTIL_DEPARTURE(flightDate, stdTime, todayDate, currentTime) ==
  IF stdTime.k \notin {"number", "date"} \/ currentTime.k \notin {"number", "date"}
  THEN [nan |-> FALSE, v |-> HourUnits(-1)]
  ELSE IF daysDiffNaN(flightDate, todayDate) THEN [nan |-> TRUE, v |-> 0]
  ELSE [nan |-> FALSE,
        v |-> hoursUntil(daysDiff(flightDate, todayDate), utcHours(stdTime), utcHours(currentTime))]

-----------------------------------------------------------------------------
(* Status engine: inputs and calls *)

\* Flight dates range over the days 0..MaxDay; today is day 1 or day 2.
MaxDay == 3
Todays == {1, 2}

\* Times of day, in minutes: the band boundaries 01:10, 07:10, 13:10 and
\* 19:10 and the deadlines 04:05, 10:05, 16:05 and 22:05 with the minute
\* before each, the boundary minute after, and times one, three and five
\* hours apart.
Times ==
  { 0, 30, 69, 70, 71, 180, 244, 245, 300, 429, 430, 431, 480, 604, 605,
    720, 789, 790, 791, 900, 964, 965, 1080, 1149, 1150, 1151, 1260,
    1324, 1325, 1430, 1439 }
\* Times given as a fraction of a day rather than as a Date.
NumberTimes == { 0, 30, 300, 430, 480 }

Indicators == { "", "Y", "y", "N" }
\* Offsets of the script's time zone from UTC, in minutes.
TimeZones == { 0, 120 }

FlightDateCells == { EmptyCell, TextCell } \cup { DayCell(d) : d \in 0..MaxDay }
TodayCells      == { TextCell } \cup { DayCell(d) : d \in Todays }
StdCells        == { EmptyCell, TextCell } \cup { DateCell(m) : m \in Times }
                     \cup { NumberCell(m) : m \in NumberTimes }
NowCells        == { TextCell } \cup { DateCell(m) : m \in Times }
                     \cup { NumberCell(m) : m \in NumberTimes }

NoHours  == [nan |-> FALSE, v |-> 0]
NoReturn == [status |-> "", hours |-> NoHours]

\* The parts of the state a specification does not use keep these values.
IdleStatus == fn = "none" /\ args = [flightDate |-> EmptyCell, stdTime |-> EmptyCell,
                                     updatedIndicator |-> "", todayDate |-> TextCell,
                                     currentTime |-> TextCell, tz |-> 0]
                          /\ ret = NoReturn
IdleAlert  == sheets = << >> /\ clock = [tz |-> 0, now |-> 0]
                          /\ mail = [sent |-> FALSE, found |-> 0, flights |-> << >>, note |-> FALSE]
\* the differ has not run: no counts, no highlight, no note
NoDiff == [ran |-> FALSE, newCount |-> 0, changedCount |-> 0, removedCount |-> 0,
           highlights |-> {}, note |-> FALSE]
IdleDiff   == oldData = << >> /\ newData = << >> /\ diff = NoDiff

InitStatus ==
  /\ fn = "none"
  /\ args \in [flightDate : FlightDateCells, stdTime : StdCells,
               updatedIndicator : Indicators, todayDate : TodayCells,
               currentTime : NowCells, tz : {0}]
  /\ ret = NoReturn
  /\ IdleAlert
  /\ IdleDiff

\* =FLIGHT_UPDATE_STATUS(A2, F2, I2, $O$2, $N$3)
CallFlightUpdateStatus ==
  /\ fn = "none"
  /\ fn' = "FLIGHT_UPDATE_STATUS"
  /\ ret' = [status |-> FLIGHT_UPDATE_STATUS(args.flightDate, args.stdTime,
                           args.updatedIndicator, args.todayDate, args.currentTime),
             hours |-> NoHours]
  /\ UNCHANGED <<args, alertVars, diffVars>>

\* calculateFlightUpdateStatus(flightDate, stdTime, today, now), run by a
\* script whose time zone is tz
CallCalculateFlightUpdateStatus ==
  /\ fn = "none"
  /\ \E tz \in TimeZones :
       /\ args' = [args EXCEPT !.tz = tz]
       /\ ret' = [status |-> calculateFlightUpdateStatus(args.flightDate, args.stdTime,
                                args.todayDate, args.currentTime, tz),
                  hours |-> NoHours]
  /\ fn' = "calculateFlightUpdateStatus"
  /\ UNCHANGED <<alertVars, diffVars>>

\* =HOURS_UNTIL_DEPARTURE(A2, F2, $O$2, $N$3)
CallHoursUntilDeparture ==
  /\ fn = "none"
  /\ fn' = "HOURS_UNTIL_DEPARTURE"
  /\ ret' = [status |-> "",
             hours |-> HOURS_UNTIL_DEPARTURE(args.flightDate, args.stdTime,
                                             args.todayDate, args.currentTime)]
  /\ UNCHANGED <<args, alertVars, diffVars>>

NextStatus ==
  \/ CallFlightUpdateStatus
  \/ CallCalculateFlightUpdateStatus
  \/ CallHoursUntilDeparture

SpecStatus == InitStatus /\ [][NextStatus]_vars

-----------------------------------------------------------------------------
(* Status engine: properties *)

CalledStatus == fn = "FLIGHT_UPDATE_STATUS"

\* What the arguments of the call say, read off the cells themselves
\* (a cell that is no number and no Date counts as 00:00, as in the code).
ArgUpdated    == args.updatedIndicator \in {"Y", "y"}
ArgMissing    == args.flightDate.k = "empty" \/ args.stdTime.k = "empty"
ArgDatesValid == args.flightDate.k = "date" /\ args.todayDate.k = "date"
ArgTimesValid == args.stdTime.k \in {"number", "date"} /\ args.currentTime.k \in {"number", "date"}
ArgDays       == (args.flightDate.v - args.todayDate.v) \div MinutesPerDay
ArgStd        == MinUnits(args.stdTime.v)
ArgNow        == MinUnits(args.currentTime.v)
ArgHoursUntil == HourUnits(24 * ArgDays) + (ArgStd - ArgNow)
ArgUrgent     == ArgDatesValid /\ 0 <= ArgHoursUntil /\ ArgHoursUntil < HourUnits(3)
ArgTooFar     == ArgDatesValid /\ (ArgHoursUntil > HourUnits(24) \/ ArgDays > 0)
\* The instant of departure minus the instant of the evaluation, on one
\* timeline of minutes since the epoch.
ArgElapsed    == MinUnits((args.flightDate.v + args.stdTime.v)
                          - (args.todayDate.v + args.currentTime.v))
Pending(u)    == PendingPrefix \o toFixed1(u) \o PendingSuffix
IsPending(st) == Len(st) > Len(PendingPrefix) /\ SubSeq(st, 1, Len(PendingPrefix)) = PendingPrefix
IsError(st)   == Len(st) >= Len(ErrorPrefix) /\ SubSeq(st, 1, Len(ErrorPrefix)) = ErrorPrefix

\* C1: FLIGHT_UPDATE_STATUS returns the urgent status exactly when the flight
\* date and the STD are present, the updated flag is not Y/y and
\* 0 <= hoursUntil < 3, for every daysDiff, STD and now.
C1_UrgentExactlyWithinThreeHours ==
  CalledStatus =>
    ((ret.status = urgentKeyword) <=> (~ArgMissing /\ ~ArgUpdated /\ ArgUrgent))

\* The deadline the specification's bands give an STD at minute m of the day.
BandDeadline(m) ==
  IF m >= 70 /\ m < 430 THEN Milli(22083)
  ELSE IF m >= 430 /\ m < 790 THEN Milli(4083)
  ELSE IF m >= 790 /\ m < 1150 THEN Milli(10083)
  ELSE Milli(16083)

\* C2: the deadline bands are half-open and exact at 01:10, 07:10, 13:10 and
\* 19:10: whenever the status is decided by the deadline, it is the status
\* the band's deadline gives (due from the deadline on, pending before it).
C2_BandsBoundaryExact ==
  (CalledStatus /\ ArgDatesValid /\ ArgTimesValid
     /\ ret.status \notin {Satisfied, urgentKeyword, TooFar}) =>
    /\ updateHour(ArgStd) = BandDeadline(args.stdTime.v)
    /\ ret.status = IF ArgNow >= BandDeadline(args.stdTime.v) THEN ActionDue
                    ELSE Pending(BandDeadline(args.stdTime.v) - ArgNow)

C4_SatisfiedOverride ==
  (CalledStatus /\ (ArgUpdated \/ ArgMissing)) => ret.status = Satisfied

\* a flight flagged "y" that would otherwise be urgent
C4_Witness ==
  /\ CalledStatus /\ args.updatedIndicator = "y" /\ ~ArgMissing
  /\ ArgUrgent /\ ArgTimesValid /\ ret.status = Satisfied

\* C5: hoursUntil = daysDiff*24 + (stdHours - nowHours) is the elapsed time
\* from (today, now) to (flightDate, STD) on one continuous timeline, also
\* across midnight: flight day D, STD 00:30, today D-1, now 23:50 is 40
\* minutes away and UrgentNow.
C5_ContinuousTimeline ==
  /\ (fn = "HOURS_UNTIL_DEPARTURE" /\ ArgDatesValid /\ ArgTimesValid) =>
       ret.hours = [nan |-> FALSE, v |-> ArgElapsed]
  /\ (CalledStatus /\ ArgDatesValid /\ ArgTimesValid /\ ~ArgUpdated
        /\ Truthy(args.stdTime)) =>
       ((ret.status = urgentKeyword) <=> (0 <= ArgElapsed /\ ArgElapsed < HourUnits(3)))
  /\ (CalledStatus /\ ArgDatesValid /\ ArgDays = 1 /\ ~ArgUpdated
        /\ args.stdTime = DateCell(30) /\ args.currentTime = DateCell(1430)) =>
       ret.status = urgentKeyword

C5_Witness ==
  /\ fn = "HOURS_UNTIL_DEPARTURE" /\ ArgDatesValid /\ ArgDays = 1
  /\ args.stdTime = DateCell(30) /\ args.currentTime = DateCell(1430)
  /\ ret.hours = [nan |-> FALSE, v |-> MinUnits(40)]

\* C6 as claimed: at hoursUntil exactly 24.0 the status is not TooFar but
\* ActionDue or ActionPending, however hoursUntil = 24.0 arises.
C6_TwentyFourNotTooFar ==
  (CalledStatus /\ Truthy(args.flightDate) /\ Truthy(args.stdTime) /\ ~ArgUpdated
     /\ ArgDatesValid /\ ArgHoursUntil = HourUnits(24)) =>
    /\ ret.status # TooFar
    /\ ret.status = ActionDue \/ IsPending(ret.status)

\* C6 amended: hoursUntil exactly 24.0 passes the `> 24` test but arises only
\* with daysDiff = 1, so the `daysDiff > 0` test makes the status TooFar.
C6_TwentyFourIsNextDay ==
  (CalledStatus /\ Truthy(args.flightDate) /\ Truthy(args.stdTime) /\ ~ArgUpdated
     /\ ArgDatesValid /\ ArgHoursUntil = HourUnits(24)) =>
    /\ ~ (ArgHoursUntil > HourUnits(24))
    /\ ArgDays = 1
    /\ ret.status = TooFar

C6_Witness ==
  /\ CalledStatus /\ Truthy(args.flightDate) /\ Truthy(args.stdTime) /\ ~ArgUpdated
  /\ ArgDatesValid /\ ArgTimesValid /\ ArgHoursUntil = HourUnits(24)
  /\ ret.status = TooFar

\* C7: an input that cannot be parsed (a date that is no date, a time that
\* is neither a number nor a time value) yields the Error status.
C7_ParseFailureIsError ==
  (fn \in {"FLIGHT_UPDATE_STATUS", "calculateFlightUpdateStatus"}
     /\ ~ArgMissing /\ ~ArgUpdated
     /\ (~ArgDatesValid \/ ~ArgTimesValid)) =>
    IsError(ret.status)

-----------------------------------------------------------------------------
(* Periodic alert check *)

enabled           == TRUE
templateSheetName == "template"
maxAlertsPerCheck == 10

\* A sheet is [name, O2, N3, rows]; rows holds the data rows (row 2 on).
\* A row is [date, code, std, updated, status, formula]: the columns A, B,
\* F, I and K, and whether K holds the formula
\* =FLIGHT_UPDATE_STATUS(A, F, I, $O$2, $N$3) or a plain value.

\* "Skip template and old sheets"
skipped(sheet) == sheet.name = templateSheetName \/ Includes(sheet.name, "_old_")

\* new Date(now.getFullYear(), now.getMonth(), now.getDate()): midnight of
\* the current day in the script's time zone
localMidnight(now, tz) ==
  DateCell(((now + tz) \div MinutesPerDay) * MinutesPerDay - tz)

\* The formulas of the status column recalculate from the sheet's O2 and N3.
recalculated(sheet) ==
  [sheet EXCEPT !.rows =
     [j \in DOMAIN sheet.rows |->
        IF sheet.rows[j].formula
        THEN [sheet.rows[j] EXCEPT !.status =
                FLIGHT_UPDATE_STATUS(sheet.rows[j].date, sheet.rows[j].std,
                                     sheet.rows[j].updated, sheet.O2, sheet.N3)]
        ELSE sheet.rows[j]]]

\* flight-update-alerts.js: O2 and N3 are set, then the formulas recalculate
\* (template sheets, old sheets and sheets without data are left alone).
refreshed(sheet, now, tz) ==
  IF skipped(sheet) \/ Len(sheet.rows) = 0 THEN sheet
  ELSE recalculated([sheet EXCEPT !.O2 = localMidnight(now, tz), !.N3 = DateCell(now)])

\* The other variant: every status is computed by the script and written to
\* column K as a value.
written(sheet, now, tz) ==
  IF skipped(sheet) \/ Len(sheet.rows) = 0 THEN sheet
  ELSE [sheet EXCEPT !.rows =
          [j \in DOMAIN sheet.rows |->
             [sheet.rows[j] EXCEPT
                !.status = calculateFlightUpdateStatus(sheet.rows[j].date, sheet.rows[j].std,
                                                       localMidnight(now, tz), DateCell(now), tz),
                !.formula = FALSE]]]

\* The object pushed for a row (row is the sheet row it came from; the
\* columns C, D, E and G it also carries play no part here).
flightOf(sheet, j) ==
  [sheet |-> sheet.name, row |-> j, date |-> sheet.rows[j].date,
   code |-> sheet.rows[j].code, std |-> sheet.rows[j].std]

\* `status && status.toString().includes(urgentKeyword)` and
\* `row[0] && row[1]`
urgentRow(r) ==
  /\ r.status # "" /\ Includes(r.status, urgentKeyword)
  /\ Truthy(r.date) /\ r.code # ""

\* flight-update-alerts.js: "Skip if flight has already been updated"
notUpdated(r) == ~ (r.updated = "Y" \/ r.updated = "y")

\* the urgent flights of one sheet, in row order
urgentInSheet(sheet, skipUpdated) ==
  IF skipped(sheet) THEN << >>
  ELSE SelectSeq([j \in 1..Len(sheet.rows) |-> flightOf(sheet, j)],
                 LAMBDA f : /\ urgentRow(sheet.rows[f.row])
                            /\ (skipUpdated => notUpdated(sheet.rows[f.row])))

\* sheets.forEach: the urgent flights of all sheets from sheet i on
RECURSIVE urgentFrom(_, _, _)
urgentFrom(ss, i, skipUpdated) ==
  IF i > Len(ss) THEN << >>
  ELSE urgentInSheet(ss[i], skipUpdated) \o urgentFrom(ss, i + 1, skipUpdated)

NoMail == [sent |-> FALSE, found |-> 0, flights |-> << >>, note |-> FALSE]

\* sendUrgentUpdateAlert: the flights listed in the mail and whether the
\* mail carries the "There may be more flights" note (found is what the
\* caller logged).
limited(flights) ==
  IF Len(flights) > maxAlertsPerCheck THEN SubSeq(flights, 1, maxAlertsPerCheck)
  ELSE flights
hasMoreNote(flights) == Len(limited(flights)) = maxAlertsPerCheck
sendUrgentUpdateAlert(flights) ==
  [sent |-> TRUE, found |-> Len(flights), flights |-> limited(flights),
   note |-> hasMoreNote(flights)]

\* "Send alert if urgent flights found"
alertFor(urgentFlights) ==
  IF Len(urgentFlights) > 0 THEN sendUrgentUpdateAlert(urgentFlights) ELSE NoMail

-----------------------------------------------------------------------------
(* Periodic alert check: sheets and checks *)

\* The sheet of day 1 holds up to MaxRows flights; the sheet of day 2 holds
\* NextDayRows flights leaving at 00:30.
MaxRows     == 6
NextDayRows == 5

\* Instants of the checks: day 1 at 09:00 and at 23:50 UTC.
NowInstants == { MinutesPerDay + 540, MinutesPerDay + 1430 }

\* Flights of day 1 at 10:00 and at 23:55 with the status formula, and one
\* at 23:55 marked as updated whose status cell holds a plain value.
MorningRow == [date |-> DayCell(1), code |-> "LH456", std |-> DateCell(600),
               updated |-> "", status |-> "", formula |-> TRUE]
LateRow    == [date |-> DayCell(1), code |-> "BA123", std |-> DateCell(1435),
               updated |-> "", status |-> "", formula |-> TRUE]
UpdatedRow == [date |-> DayCell(1), code |-> "BA123", std |-> DateCell(1435),
               updated |-> "Y", status |-> urgentKeyword, formula |-> FALSE]
NextDayRow == [date |-> DayCell(2), code |-> "W6789", std |-> DateCell(30),
               updated |-> "", status |-> "", formula |-> TRUE]
RowKinds   == { MorningRow, LateRow, UpdatedRow }

RowLists == UNION { [1..n -> RowKinds] : n \in 0..MaxRows }

\* template, the sheet of day 1, a retired version of it and the sheet of
\* day 2, as the imports left them (O2 and N3 not yet set by any check).
SheetsWith(rows) ==
  << [name |-> templateSheetName, O2 |-> EmptyCell, N3 |-> EmptyCell,
      rows |-> << [LateRow EXCEPT !.status = urgentKeyword, !.formula = FALSE] >>],
     recalculated([name |-> "01JAN", O2 |-> EmptyCell, N3 |-> EmptyCell, rows |-> rows]),
     [name |-> "01JAN_old_0930", O2 |-> EmptyCell, N3 |-> EmptyCell,
      rows |-> << [LateRow EXCEPT !.status = urgentKeyword, !.formula = FALSE] >>],
     recalculated([name |-> "02JAN", O2 |-> EmptyCell, N3 |-> EmptyCell,
                   rows |-> [j \in 1..NextDayRows |-> NextDayRow]]) >>

InitAlert ==
  /\ IdleStatus
  /\ IdleDiff
  /\ \E rows \in RowLists : sheets = SheetsWith(rows)
  /\ \E tz \in TimeZones : clock = [tz |-> tz, now |-> 0]
  /\ mail = NoMail

\* checkUrgentFlightUpdates of flight-update-alerts.js, fired by the
\* time-based trigger at the instant now
CheckUrgentFlightUpdates ==
  /\ enabled
  /\ \E now \in NowInstants :
       /\ clock' = [clock EXCEPT !.now = now]
       /\ sheets' = [i \in DOMAIN sheets |-> refreshed(sheets[i], now, clock.tz)]
       /\ mail' = alertFor(urgentFrom(sheets', 1, TRUE))
  /\ UNCHANGED <<statusVars, diffVars>>

\* checkUrgentFlightUpdates of the variant that computes the statuses
CheckUrgentFlightUpdatesWriting ==
  /\ enabled
  /\ \E now \in NowInstants :
       /\ clock' = [clock EXCEPT !.now = now]
       /\ sheets' = [i \in DOMAIN sheets |-> written(sheets[i], now, clock.tz)]
       /\ mail' = alertFor(urgentFrom(sheets', 1, FALSE))
  /\ UNCHANGED <<statusVars, diffVars>>

NextAlert ==
  \/ CheckUrgentFlightUpdates
  \/ CheckUrgentFlightUpdatesWriting

SpecAlert == InitAlert /\ [][NextAlert]_vars

-----------------------------------------------------------------------------
(* Periodic alert check: properties *)

\* the sheet rows a check looks at, as <<sheet index, row index>>
CheckedRows ==
  UNION { { <<i, j>> : j \in DOMAIN sheets[i].rows } :
            i \in { i \in DOMAIN sheets : ~skipped(sheets[i]) } }
RowAt(p) == sheets[p[1]].rows[p[2]]
\* rows whose status cell shows the urgent status
UrgentShown == { p \in CheckedRows : Includes(RowAt(p).status, urgentKeyword) }
\* encounter order: sheet order, then row order
Before(p, q) == p[1] < q[1] \/ (p[1] = q[1] /\ p[2] <= q[2])
Rank(p) == Cardinality({ q \in UrgentShown : Before(q, p) })
\* every row a check looks at has date and code and is not marked updated
AllRowsPlain ==
  \A p \in CheckedRows :
    RowAt(p).updated = "" /\ RowAt(p).code # "" /\ Truthy(RowAt(p).date)

\* C8: the alert of one check lists exactly the flights whose status is
\* urgent, in sheet order then row order, cut to the first
\* maxAlertsPerCheck; the "There may be more flights" note is given if and
\* only if more than maxAlertsPerCheck urgent flights were found.
C8_AlertListsFirstNAndNotesOnlyOverflow ==
  (mail.sent /\ AllRowsPlain) =>
    /\ Len(mail.flights) = IF Cardinality(UrgentShown) > maxAlertsPerCheck
                           THEN maxAlertsPerCheck ELSE Cardinality(UrgentShown)
    /\ \A k \in DOMAIN mail.flights :
         \E p \in UrgentShown :
           /\ Rank(p) = k
           /\ mail.flights[k].sheet = sheets[p[1]].name
           /\ mail.flights[k].row = p[2]
    /\ mail.note <=> (Cardinality(UrgentShown) > maxAlertsPerCheck)

\* C9: a check never puts a flight whose column I is "Y" or "y" into the
\* urgent alert list, whatever its status and whatever the time.
C9_UpdatedFlightsNeverAlerted ==
  \A k \in DOMAIN mail.flights :
    \A i \in DOMAIN sheets :
      sheets[i].name = mail.flights[k].sheet =>
        sheets[i].rows[mail.flights[k].row].updated \notin {"Y", "y"}

-----------------------------------------------------------------------------
(* Snapshot diff *)

enableChangeDetection == TRUE
changeHighlightColor  == "#fff2cc"
newFlightColor        == "#d9ead3"

\* A data row is the sequence of its cells A-G, each a string.

\* String.prototype.trim (the cells hold no white space but blanks)
RECURSIVE trim(_)
trim(str) ==
  IF Len(str) = 0 THEN str
  ELSE IF SubSeq(str, 1, 1) = " " THEN trim(SubSeq(str, 2, Len(str)))
  ELSE IF SubSeq(str, Len(str), Len(str)) = " " THEN trim(SubSeq(str, 1, Len(str) - 1))
  ELSE str

\* Array.prototype.join('|')
RECURSIVE join(_)
join(cells) ==
  IF Len(cells) = 0 THEN ""
  ELSE IF Len(cells) = 1 THEN cells[1]
  ELSE cells[1] \o "|" \o join(Tail(cells))

\* createRowKey: the trimmed cells of the columns A-G joined by '|'
createRowKey(row) ==
  join([i \in DOMAIN row |-> IF i - 1 <= 6 THEN trim(row[i]) ELSE ""])

\* `row[1] ? row[1].toString().trim() : ''`: the zero-based index 1, column B
codeOf(row) == trim(row[2])

\* The lookup built from one sheet: the rows with a non-empty column B, by
\* row key; a later row with the same key replaces the earlier one.
\* The result maps each key to [rowIndex, code].
flightKeys(data) == { createRowKey(data[i]) : i \in { i \in DOMAIN data : codeOf(data[i]) # "" } }
lastIndexOf(data, key) ==
  CHOOSE i \in DOMAIN data :
    /\ codeOf(data[i]) # "" /\ createRowKey(data[i]) = key
    /\ \A j \in DOMAIN data :
         (codeOf(data[j]) # "" /\ createRowKey(data[j]) = key) => j <= i
flightMap(data) ==
  [key \in flightKeys(data) |->
     [rowIndex |-> lastIndexOf(data, key) + 1, code |-> codeOf(data[lastIndexOf(data, key)])]]

\* Object.values(map).find(f => f.code === code)
sameCodeIn(map, code) == \E key \in DOMAIN map : map[key].code = code

\* "Check for new flights (in new but not in old)"
newKeys(oldFlights, newFlights) ==
  { key \in DOMAIN newFlights :
      key \notin DOMAIN oldFlights /\ ~sameCodeIn(oldFlights, newFlights[key].code) }
changedKeys(oldFlights, newFlights) ==
  { key \in DOMAIN newFlights :
      key \notin DOMAIN oldFlights /\ sameCodeIn(oldFlights, newFlights[key].code) }
\* "Check for removed flights (in old but not in new)"
removedKeys(oldFlights, newFlights) ==
  { key \in DOMAIN oldFlights :
      key \notin DOMAIN newFlights /\ ~sameCodeIn(newFlights, oldFlights[key].code) }

\* detectAndHighlightChanges(oldSheet, newSheet): the three counts, the
\* highlighted rows of the new sheet as <<row, colour>>, and whether the note
\* was set and the change notification sent.
detectAndHighlightChanges(old, new) ==
  IF ~enableChangeDetection \/ Len(old) = 0 \/ Len(new) = 0 THEN NoDiff
  ELSE LET oldFlights == flightMap(old)
           newFlights == flightMap(new)
           added      == newKeys(oldFlights, newFlights)
           changed    == changedKeys(oldFlights, newFlights)
           removed    == removedKeys(oldFlights, newFlights)
       IN [ran |-> TRUE,
           newCount |-> Cardinality(added),
           changedCount |-> Cardinality(changed),
           removedCount |-> Cardinality(removed),
           highlights |-> { <<newFlights[key].rowIndex, newFlightColor>> : key \in added }
                            \cup { <<newFlights[key].rowIndex, changeHighlightColor>> : key \in changed },
           note |-> Cardinality(added) + Cardinality(changed) + Cardinality(removed) > 0]

(* The sheets the differ is given.  Both are sorted by column B when the      *)
(* differ runs (the old one by the import that created it, the new one by     *)
(* sortDataByColumnB just before), blank cells last.                          *)

MaxDiffRows == 2

BaseRow     == <<"01-Jan-25", "LYAAA", "BT101", "VNO", "RIX", "10:00", "11:00">>
RetimedRow  == <<"01-Jan-25", "LYAAA", "BT101", "VNO", "RIX", "10:30", "11:30">>
PaddedRow   == <<"01-Jan-25", "LYAAA ", "BT101", "VNO", "RIX", "10:00", "11:00">>
RecodedRow  == <<"01-Jan-25", "LYAAA", "BT999", "VNO", "RIX", "10:00", "11:00">>
OtherRow    == <<"01-Jan-25", "LYBBB", "BT202", "VNO", "FRA", "12:00", "14:00">>
NoCodeRow   == <<"01-Jan-25", "", "BT303", "VNO", "OSL", "15:00", "17:00">>
DiffRows    == { BaseRow, RetimedRow, PaddedRow, RecodedRow, OtherRow, NoCodeRow }

\* position of a column-B value in the sheet's ascending order
columnBOrder(row) ==
  IF codeOf(row) = "" THEN 3 ELSE IF codeOf(row) = "LYAAA" THEN 1 ELSE 2

sortedByColumnB(data) ==
  \A i, j \in DOMAIN data : i < j => columnBOrder(data[i]) <= columnBOrder(data[j])

DiffSheets ==
  { data \in UNION { [1..n -> DiffRows] : n \in 0..MaxDiffRows } : sortedByColumnB(data) }

InitDiff ==
  /\ IdleStatus
  /\ IdleAlert
  /\ oldData \in DiffSheets
  /\ newData \in DiffSheets
  /\ diff = NoDiff

DetectAndHighlightChanges ==
  /\ diff' = detectAndHighlightChanges(oldData, newData)
  /\ UNCHANGED <<statusVars, alertVars, oldData, newData>>

NextDiff == DetectAndHighlightChanges

SpecDiff == InitDiff /\ [][NextDiff]_vars

(* Claim side: the classification the differ is meant to compute, row by row *)

KeysOf(data) == { createRowKey(data[i]) : i \in DOMAIN data }
CodesOf(data) == { codeOf(data[i]) : i \in DOMAIN data }
UnchangedNewRows == { j \in DOMAIN newData : createRowKey(newData[j]) \in KeysOf(oldData) }
HighlightedRows == { h[1] : h \in diff.highlights }

\* C10: once the differ has compared two non-empty sheets, every data row of
\* the new sheet is classified exactly once: the rows counted New, the rows
\* counted Modified and the rows whose RowKey exists in the previous sheet
\* add up to the number of rows of the new sheet, and exactly the rows that
\* are not unchanged carry a highlight.
C10_EveryNewRowClassifiedOnce ==
  diff.ran =>
    /\ diff.newCount + diff.changedCount + Cardinality(UnchangedNewRows) = Len(newData)
    /\ HighlightedRows = { j + 1 : j \in DOMAIN newData \ UnchangedNewRows }

-----------------------------------------------------------------------------
(* Import configuration *)

\* CONFIG.columnMapping: the sheet column (A = 1) each field is written to
Fields == <<"LegDate", "VehicleReg", "Code", "DepString", "ArrString", "STDHHMM", "STAHHMM">>
columnMapping ==
  [LegDate |-> 1, VehicleReg |-> 2, Code |-> 3, DepString |-> 4, ArrString |-> 5,
   STDHHMM |-> 6, STAHHMM |-> 7]

-----------------------------------------------------------------------------
(* Snapshot diff: classification *)

\* the flight Code of a sheet row: the cell of the column Code is imported to
FlightCode(row) == trim(row[columnMapping.Code])
FlightCodes(data) == { FlightCode(data[i]) : i \in DOMAIN data }

\* the class the differ gave a row of the new sheet, read from its highlight
ClassOf(j) ==
  IF <<j + 1, newFlightColor>> \in diff.highlights THEN "New"
  ELSE IF <<j + 1, changeHighlightColor>> \in diff.highlights THEN "Modified"
  ELSE "Unchanged"
\* the class the row is meant to get
ExpectedClass(j) ==
  IF createRowKey(newData[j]) \in KeysOf(oldData) THEN "Unchanged"
  ELSE IF FlightCode(newData[j]) \in FlightCodes(oldData) THEN "Modified"
  ELSE "New"

\* no two rows of the sheet have the same key, and every row has a column B
PlainSheet(data) ==
  /\ \A i, j \in DOMAIN data : i # j => createRowKey(data[i]) # createRowKey(data[j])
  /\ \A i \in DOMAIN data : codeOf(data[i]) # ""

\* C11: every row of the new sheet is Unchanged if its RowKey exists in the
\* previous sheet, otherwise Modified if a previous row has the same flight
\* Code, and New if no previous row has that Code; the counts are the sizes
\* of the classes.  (Sheets without duplicate rows and without an empty
\* column B.)
C11_ClassifiedByKeyThenCode ==
  (diff.ran /\ PlainSheet(oldData) /\ PlainSheet(newData)) =>
    /\ \A j \in DOMAIN newData : ClassOf(j) = ExpectedClass(j)
    /\ diff.newCount = Cardinality({ j \in DOMAIN newData : ExpectedClass(j) = "New" })
    /\ diff.changedCount = Cardinality({ j \in DOMAIN newData : ExpectedClass(j) = "Modified" })

\* C12: removedCount is the number of rows of the previous sheet whose RowKey
\* is absent from the new sheet and whose flight Code occurs nowhere in the
\* new sheet.  (Sheets without duplicate rows and without an empty column B.)
C12_RemovedByKeyAndCode ==
  (diff.ran /\ PlainSheet(oldData) /\ PlainSheet(newData)) =>
    diff.removedCount =
      Cardinality({ i \in DOMAIN oldData :
                      /\ createRowKey(oldData[i]) \notin KeysOf(newData)
                      /\ FlightCode(oldData[i]) \notin FlightCodes(newData) })

-----------------------------------------------------------------------------
(* createRowKey on pairs of rows *)

\* Two rows that differ at most in the columns D and E; the cells include
\* leading and trailing blanks, the empty cell and the '|' character.
KeyCellsD == { "VNO", "VNO|", " VNO", "" }
KeyCellsE == { "RIX", "|RIX", "RIX ", "" }
KeyRows ==
  { <<"01-Jan-25", "LYAAA", "BT101", d, e, "10:00", "11:00">> : d \in KeyCellsD, e \in KeyCellsE }

InitKey ==
  /\ fn = "none"
  /\ args \in [rowA : KeyRows, rowB : KeyRows]
  /\ ret = NoReturn
  /\ IdleAlert
  /\ IdleDiff

CallCreateRowKey ==
  /\ fn = "none"
  /\ fn' = "createRowKey"
  /\ ret' = [keyA |-> createRowKey(args.rowA), keyB |-> createRowKey(args.rowB)]
  /\ UNCHANGED <<args, alertVars, diffVars>>

NextKey == CallCreateRowKey

SpecKey == InitKey /\ [][NextKey]_vars

\* C13: two rows have the same RowKey if and only if each of their columns
\* A-G has the same content after trimming, also when a cell holds the '|'
\* character or is empty.
C13_RowKeyInjectiveOnTrimmedCells ==
  fn = "createRowKey" =>
    ((ret.keyA = ret.keyB) <=>
       (\A i \in 1..7 : trim(args.rowA[i]) = trim(args.rowB[i])))

-----------------------------------------------------------------------------
(* Feed parser *)

\* CONFIG.headerAliases, in the order of the source: <<alias, field>>
headerAliases ==
  << <<"LegDate", "LegDate">>, <<"Leg Date", "LegDate">>, <<"Date", "LegDate">>,
     <<"Flight Date", "LegDate">>,
     <<"VehicleReg", "VehicleReg">>, <<"Vehicle Reg", "VehicleReg">>,
     <<"Registration", "VehicleReg">>, <<"Reg", "VehicleReg">>,
     <<"Aircraft", "VehicleReg">>, <<"AC Reg", "VehicleReg">>, <<"Tail", "VehicleReg">>,
     <<"Tail Number", "VehicleReg">>,
     <<"Code", "Code">>, <<"Flight Code", "Code">>, <<"Flight", "Code">>,
     <<"Flight Number", "Code">>, <<"Flight No", "Code">>,
     <<"DepString", "DepString">>, <<"Dep String", "DepString">>,
     <<"Departure", "DepString">>, <<"Dep", "DepString">>, <<"From", "DepString">>,
     <<"Origin", "DepString">>,
     <<"ArrString", "ArrString">>, <<"Arr String", "ArrString">>,
     <<"Arrival", "ArrString">>, <<"Arr", "ArrString">>, <<"To", "ArrString">>,
     <<"Destination", "ArrString">>,
     <<"STDHHMM", "STDHHMM">>, <<"STD HHMM", "STDHHMM">>, <<"STD", "STDHHMM">>,
     <<"Dep Time", "STDHHMM">>, <<"Departure Time", "STDHHMM">>,
     <<"STAHHMM", "STAHHMM">>, <<"STA HHMM", "STAHHMM">>, <<"STA", "STAHHMM">>,
     <<"Arr Time", "STAHHMM">>, <<"Arrival Time", "STAHHMM">> >>

UpperCase == "ABCDEFGHIJKLMNOPQRSTUVWXYZ"
LowerCase == "abcdefghijklmnopqrstuvwxyz"
Digits    == "0123456789"

\* String.prototype.toLowerCase, one character
toLowerCase(ch) ==
  IF \E i \in 1..Len(UpperCase) : SubSeq(UpperCase, i, i) = ch
  THEN LET i == CHOOSE i \in 1..Len(UpperCase) : SubSeq(UpperCase, i, i) = ch
       IN SubSeq(LowerCase, i, i)
  ELSE ch

\* the character class [a-z0-9]
alphanumeric(ch) ==
  \/ \E i \in 1..Len(LowerCase) : SubSeq(LowerCase, i, i) = ch
  \/ \E i \in 1..Len(Digits) : SubSeq(Digits, i, i) = ch

\* str.toLowerCase().replace(/[^a-z0-9]/g, '')
RECURSIVE normalized(_)
normalized(str) ==
  IF Len(str) = 0 THEN ""
  ELSE LET ch == toLowerCase(SubSeq(str, 1, 1))
       IN (IF alphanumeric(ch) THEN ch ELSE "") \o normalized(SubSeq(str, 2, Len(str)))

\* the normalized aliases of each field
normalizedAlias == [k \in DOMAIN headerAliases |-> normalized(headerAliases[k][1])]
aliasesOf ==
  [fieldName \in DOMAIN columnMapping |->
     { normalizedAlias[k] : k \in { k \in DOMAIN headerAliases : headerAliases[k][2] = fieldName } }]

\* `normalizedHeader === normalizedAlias` for some alias of the field
matchesSubstring(fieldName, header) ==
  \E alias \in aliasesOf[fieldName] : Includes(normalized(header), alias)
matches(fieldName, header) == normalized(header) \in aliasesOf[fieldName]

\* the loop over the headers: the zero-based index of the first header that
\* matches an alias of the field, -1 when the loop ends without a match
RECURSIVE findHeader(_, _, _)
findHeader(fieldName, headers, i) ==
  IF i > Len(headers) THEN -1
  ELSE IF matches(fieldName, headers[i]) THEN i - 1
  ELSE findHeader(fieldName, headers, i + 1)

\* `rawData[0].map(h => h.toString().trim())`
headersOf(rawData) == [i \in DOMAIN rawData[1] |-> trim(rawData[1][i])]

colIndicesOf(rawData) ==
  [fieldName \in DOMAIN columnMapping |-> findHeader(fieldName, headersOf(rawData), 1)]

\* `sourceIndex >= 0 ? row[sourceIndex] : ''`
cellAtTrimmed(row, sourceIndex) == IF sourceIndex >= 0 THEN trim(row[sourceIndex + 1]) ELSE ""
cellAt(row, sourceIndex) == IF sourceIndex >= 0 THEN row[sourceIndex + 1] ELSE ""

flightDataOf(row, colIndices) ==
  [fieldName \in DOMAIN columnMapping |-> cellAt(row, colIndices[fieldName])]

\* `!row || row.length === 0 || !row[0]`
skippedRow(row) == Len(row) = 0 \/ row[1] = ""
\* `flightData.LegDate || flightData.Code`
essential(flightData) == flightData.LegDate # "" \/ flightData.Code # ""

RECURSIVE parsedFrom(_, _, _)
parsedFrom(rawData, colIndices, i) ==
  IF i > Len(rawData) THEN << >>
  ELSE LET row == rawData[i]
           rest == parsedFrom(rawData, colIndices, i + 1)
       IN IF skippedRow(row) THEN rest
          ELSE IF essential(flightDataOf(row, colIndices))
               THEN <<flightDataOf(row, colIndices)>> \o rest
               ELSE rest

parseScheduleData(rawData) ==
  IF Len(rawData) < 2 THEN << >>
  ELSE parsedFrom(rawData, colIndicesOf(rawData), 2)

(* Header resolution: feeds with varied header lists and one data row *)

MaxHeaders == 3

ExampleHeaders == <<"Flight Code", "Registration", "Date", "From", "To", "Dep Time", "Arr Time">>
\* spellings that normalize to an alias, headers that merely contain one
\* ("Aircraft Type", "Time"), and a header with surrounding blanks
HeaderPool ==
  { "Flight Code", "flight_code", "Code", "Registration", "Aircraft Type", " Date ", "Time" }
HeaderLists ==
  { ExampleHeaders } \cup UNION { [1..n -> HeaderPool] : n \in 1..MaxHeaders }

SampleCells == <<"BT101", "LYAAA", "01-Jan-25", "VNO", "RIX", "10:00", "11:00">>
sampleRow(headers) == [i \in DOMAIN headers |-> SampleCells[i]]

InitResolve ==
  /\ fn = "none"
  /\ \E headers \in HeaderLists : args = [rawData |-> <<headers, sampleRow(headers)>>]
  /\ ret = NoReturn
  /\ IdleAlert
  /\ IdleDiff

CallParseScheduleData ==
  /\ fn = "none"
  /\ fn' = "parseScheduleData"
  /\ ret' = [colIndices |-> colIndicesOf(args.rawData),
             scheduleData |-> parseScheduleData(args.rawData)]
  /\ UNCHANGED <<args, alertVars, diffVars>>

NextResolve == CallParseScheduleData

SpecResolve == InitResolve /\ [][NextResolve]_vars

\* the headers of the feed, trimmed, and the indices at which a header's
\* normalized form equals a normalized alias of the field
FeedHeaders == headersOf(args.rawData)
ExactMatches(fieldName) ==
  { i \in DOMAIN FeedHeaders : normalized(FeedHeaders[i]) \in aliasesOf[fieldName] }
FirstExactMatch(fieldName) ==
  IF ExactMatches(fieldName) = {} THEN -1
  ELSE (CHOOSE i \in ExactMatches(fieldName) : \A j \in ExactMatches(fieldName) : i <= j) - 1

MaxParseRows == 1

ParseHeaders == { "Date", "Flight Code", "Registration", "Notes" }
ParseHeaderLists ==
  { headers \in [1..3 -> ParseHeaders] : \A i, j \in 1..3 : i # j => headers[i] # headers[j] }
\* data rows of three cells: empty cells in each position, a cell with
\* surrounding blanks, and a row without any content
ParseRows ==
  { <<"BT101", " LYAAA ", "">>, <<"", "BT101", " LYAAA ">>, <<" LYAAA ", "", "BT101">>,
    <<"", "", " LYAAA ">>, <<"BT101", "BT101", "BT101">>, <<"", "", "">> }
ParseRowLists == UNION { [1..n -> ParseRows] : n \in 0..MaxParseRows }
ColumnOrders == { <<2, 1, 3>>, <<2, 3, 1>> }

\* the same feed with its columns in another order, headers and cells together
permuted(rawData, order) ==
  [r \in DOMAIN rawData |-> [i \in DOMAIN order |-> rawData[r][order[i]]]]

InitParse ==
  /\ fn = "none"
  /\ \E headers \in ParseHeaderLists, rows \in ParseRowLists, order \in ColumnOrders :
       args = [rawData |-> <<headers>> \o rows, order |-> order]
  /\ ret = NoReturn
  /\ IdleAlert
  /\ IdleDiff

CallParseScheduleDataPermuted ==
  /\ fn = "none"
  /\ fn' = "parseScheduleData"
  /\ ret' = [colIndices |-> colIndicesOf(args.rawData),
             scheduleData |-> parseScheduleData(args.rawData),
             permutedData |-> parseScheduleData(permuted(args.rawData, args.order))]
  /\ UNCHANGED <<args, alertVars, diffVars>>

NextParse == CallParseScheduleDataPermuted

SpecParse == InitParse /\ [][NextParse]_vars

\* the source cell of a field in a data row, "" when the field is unresolved
SourceCell(i, fieldName) ==
  IF ret.colIndices[fieldName] >= 0 THEN args.rawData[i][ret.colIndices[fieldName] + 1] ELSE ""
\* the data rows whose resolved LegDate or Code cell is non-empty
EssentialRows ==
  { i \in 2..Len(args.rawData) : SourceCell(i, "LegDate") # "" \/ SourceCell(i, "Code") # "" }
\* the k-th of a set of row numbers, in feed order
NthOf(rows, k) == CHOOSE i \in rows : Cardinality({ j \in rows : j <= i }) = k

\* C15: a data row is kept if and only if its resolved LegDate cell or its
\* resolved Code cell is non-empty: the records are those of exactly these
\* rows, in feed order; no other cell decides.
C15_KeptIffDateOrCode ==
  fn = "parseScheduleData" =>
    /\ Len(ret.scheduleData) = Cardinality(EssentialRows)
    /\ \A k \in DOMAIN ret.scheduleData :
         /\ ret.scheduleData[k].LegDate = SourceCell(NthOf(EssentialRows, k), "LegDate")
         /\ ret.scheduleData[k].Code = SourceCell(NthOf(EssentialRows, k), "Code")

\* every header of the feed is an alias of some field
AllRecognised ==
  \A i \in DOMAIN args.rawData[1] :
    \E fieldName \in DOMAIN columnMapping : matches(fieldName, args.rawData[1][i])

\* C16: for a feed with distinct recognised headers, the feed with its
\* columns permuted (headers and cells together) parses to the same sequence
\* of records.
C16_ColumnOrderIrrelevant ==
  (fn = "parseScheduleData" /\ AllRecognised) => ret.permutedData = ret.scheduleData

\* the data rows the parser kept
KeptRows ==
  { i \in 2..Len(args.rawData) :
      ~skippedRow(args.rawData[i]) /\ essential(flightDataOf(args.rawData[i], ret.colIndices)) }

-----------------------------------------------------------------------------
(* Date filter *)

RECURSIVE splitOn(_, _)
splitOn(str, sep) ==
  IF \E i \in 1..Len(str) : SubSeq(str, i, i) = sep
  THEN LET i == CHOOSE i \in 1..Len(str) :
                  SubSeq(str, i, i) = sep /\ \A j \in 1..(i - 1) : SubSeq(str, j, j) # sep
       IN <<SubSeq(str, 1, i - 1)>> \o splitOn(SubSeq(str, i + 1, Len(str)), sep)
  ELSE <<str>>

allDigits(str) ==
  Len(str) > 0 /\ \A i \in 1..Len(str) : \E d \in 1..Len(Digits) : SubSeq(Digits, d, d) = SubSeq(str, i, i)
RECURSIVE toNumber(_)
toNumber(str) ==
  IF Len(str) = 0 THEN 0
  ELSE toNumber(SubSeq(str, 1, Len(str) - 1)) * 10
         + (CHOOSE d \in 1..Len(Digits) : SubSeq(Digits, d, d) = SubSeq(str, Len(str), Len(str))) - 1

Months == <<"jan", "feb", "mar", "apr", "may", "jun", "jul", "aug", "sep", "oct", "nov", "dec">>
RECURSIVE lowered(_)
lowered(str) ==
  IF Len(str) = 0 THEN "" ELSE toLowerCase(SubSeq(str, 1, 1)) \o lowered(SubSeq(str, 2, Len(str)))
monthOf(str) ==
  IF \E k \in DOMAIN Months : Months[k] = lowered(str)
  THEN CHOOSE k \in DOMAIN Months : Months[k] = lowered(str)
  ELSE 0

\* `new Date(dateStr)` for the feed's date format, day-Mon-year ("29-Mar-25",
\* "1-Apr-2025"); a two-digit year below 50 is 20yy, from 50 on 19yy.  Text
\* of any other form gives an Invalid Date.
InvalidDateValue == [valid |-> FALSE, year |-> 0, month |-> 0, day |-> 0]
newDate(dateStr) ==
  LET parts == splitOn(dateStr, "-")
  IN IF /\ Len(parts) = 3
        /\ allDigits(parts[1]) /\ Len(parts[1]) <= 2 /\ toNumber(parts[1]) \in 1..31
        /\ monthOf(parts[2]) > 0
        /\ allDigits(parts[3]) /\ Len(parts[3]) \in {2, 4}
     THEN [valid |-> TRUE,
           year  |-> IF Len(parts[3]) = 4 THEN toNumber(parts[3])
                     ELSE IF toNumber(parts[3]) < 50 THEN 2000 + toNumber(parts[3])
                     ELSE 1900 + toNumber(parts[3]),
           month |-> monthOf(parts[2]),
           day   |-> toNumber(parts[1])]
     ELSE InvalidDateValue

\* String(n).padStart(2, '0')
padStart2(n) == IF n < 10 THEN "0" \o ToString(n) ELSE ToString(n)

\* normalizeDate: "YYYY-MM-DD"; the getters of an Invalid Date give NaN
normalizeDate(dateStr) ==
  LET date == newDate(dateStr)
  IN IF date.valid
     THEN ToString(date.year) \o "-" \o padStart2(date.month) \o "-" \o padStart2(date.day)
     ELSE "NaN-NaN-NaN"

\* the test of the filter for one record
matchesTarget(flight, targetDate) ==
  LET flightDate == trim(flight.LegDate)
  IN flightDate # "" /\ normalizeDate(flightDate) = normalizeDate(targetDate)

RECURSIVE filterDataByDate(_, _)
filterDataByDate(scheduleData, targetDate) ==
  IF Len(scheduleData) = 0 THEN << >>
  ELSE (IF matchesTarget(Head(scheduleData), targetDate) THEN <<Head(scheduleData)>> ELSE << >>)
         \o filterDataByDate(Tail(scheduleData), targetDate)

MaxRecords == 2

\* the same day in three spellings, another day, text that is no date, no date
LegDates == { "1-Apr-25", "01-Apr-25", " 1-Apr-2025", "30-Mar-25", "TBD", "" }
TargetDates == { "1-Apr-25", "30-Mar-25", "2-Apr-25", "TBD" }
flightOn(legDate) ==
  [LegDate |-> legDate, VehicleReg |-> "LYAAA", Code |-> "BT101", DepString |-> "VNO",
   ArrString |-> "RIX", STDHHMM |-> "10:00", STAHHMM |-> "11:00"]
FilterRecords == { flightOn(legDate) : legDate \in LegDates }

InitFilter ==
  /\ fn = "none"
  /\ \E scheduleData \in UNION { [1..n -> FilterRecords] : n \in 0..MaxRecords },
        targetDate \in TargetDates :
       args = [scheduleData |-> scheduleData, targetDate |-> targetDate]
  /\ ret = NoReturn
  /\ IdleAlert
  /\ IdleDiff

CallFilterDataByDate ==
  /\ fn = "none"
  /\ fn' = "filterDataByDate"
  /\ ret' = [filtered |-> filterDataByDate(args.scheduleData, args.targetDate)]
  /\ UNCHANGED <<args, alertVars, diffVars>>

NextFilter == CallFilterDataByDate

SpecFilter == InitFilter /\ [][NextFilter]_vars

\* the record's date and the target date parse, and to the same calendar day
SameDay(legDate, targetDate) ==
  /\ newDate(trim(legDate)).valid
  /\ newDate(targetDate).valid
  /\ newDate(trim(legDate)) = newDate(targetDate)
OnTargetDay == { i \in DOMAIN args.scheduleData : SameDay(args.scheduleData[i].LegDate, args.targetDate) }

\* C20: filterDataByDate returns exactly the records, in their order, whose
\* date parses to the calendar day of the target date; a record whose date
\* is empty or does not parse is excluded for every target date, a target
\* date that does not parse included.
C20_ExactlyTheRecordsOfTheDay ==
  fn = "filterDataByDate" =>
    /\ Len(ret.filtered) = Cardinality(OnTargetDay)
    /\ \A k \in DOMAIN ret.filtered : ret.filtered[k] = args.scheduleData[NthOf(OnTargetDay, k)]

-----------------------------------------------------------------------------
(* Import into the new sheet *)

\* the characters of the cells in ascending order
CodeUnits == " -0123456789:ABCDEFGHIJKLMNOPQRSTUVWXYZ_abcdefghijklmnopqrstuvwxyz|"
codeUnit(ch) == CHOOSE i \in 1..Len(CodeUnits) : SubSeq(CodeUnits, i, i) = ch

\* text order, character by character
RECURSIVE textBefore(_, _)
textBefore(a, b) ==
  IF Len(b) = 0 THEN FALSE
  ELSE IF Len(a) = 0 THEN TRUE
  ELSE IF SubSeq(a, 1, 1) = SubSeq(b, 1, 1)
       THEN textBefore(SubSeq(a, 2, Len(a)), SubSeq(b, 2, Len(b)))
       ELSE codeUnit(SubSeq(a, 1, 1)) < codeUnit(SubSeq(b, 1, 1))

\* ascending sheet order of two cells: text A-Z, blank cells last
sortsBefore(a, b) == a # "" /\ (b = "" \/ textBefore(a, b))

\* `flight[fieldName] || ''` written to `targetColumn + row`, columns A-G
writtenRow(flight) ==
  [column \in 1..7 |->
     flight[CHOOSE fieldName \in DOMAIN columnMapping : columnMapping[fieldName] = column]]

\* sortRange.sort({column: 2, ascending: true}); rows with equal cells keep
\* their order
RECURSIVE insertedByColumn(_, _, _)
insertedByColumn(row, rows, column) ==
  IF Len(rows) = 0 THEN <<row>>
  ELSE IF sortsBefore(Head(rows)[column], row[column])
       THEN <<Head(rows)>> \o insertedByColumn(row, Tail(rows), column)
       ELSE <<row>> \o rows
RECURSIVE sortedByColumn(_, _)
sortedByColumn(rows, column) ==
  IF Len(rows) = 0 THEN << >>
  ELSE insertedByColumn(Head(rows), sortedByColumn(Tail(rows), column), column)
sortDataByColumnB(rows) == sortedByColumn(rows, 2)

\* importScheduleData: the data rows of the new sheet (created from the
\* template, so without data rows before) and the count returned
importedRows(scheduleData, targetDate) ==
  LET filteredData == filterDataByDate(scheduleData, targetDate)
  IN sortDataByColumnB([i \in DOMAIN filteredData |-> writtenRow(filteredData[i])])

MaxImport == 3

ImportFlight(legDate, vehicleReg, code) ==
  [LegDate |-> legDate, VehicleReg |-> vehicleReg, Code |-> code, DepString |-> "VNO",
   ArrString |-> "RIX", STDHHMM |-> "10:00", STAHHMM |-> "11:00"]
\* registrations and codes in different orders, two legs of one aircraft, a
\* flight of another day and a flight without registration
ImportRecords ==
  { ImportFlight("1-Apr-25", "LYBBB", "BT101"), ImportFlight("1-Apr-25", "LYAAA", "BT202"),
    ImportFlight("01-Apr-25", "LYAAA", "BT303"), ImportFlight("30-Mar-25", "LYAAA", "BT101"),
    ImportFlight("1-Apr-25", "", "BT404") }
ImportDates == { "1-Apr-25", "30-Mar-25" }

InitImport ==
  /\ fn = "none"
  /\ \E scheduleData \in UNION { [1..n -> ImportRecords] : n \in 0..MaxImport },
        targetDate \in ImportDates :
       args = [scheduleData |-> scheduleData, targetDate |-> targetDate]
  /\ ret = NoReturn
  /\ IdleAlert
  /\ IdleDiff

ImportScheduleData ==
  /\ fn = "none"
  /\ fn' = "importScheduleData"
  /\ newData' = importedRows(args.scheduleData, args.targetDate)
  /\ ret' = [count |-> Len(filterDataByDate(args.scheduleData, args.targetDate))]
  /\ UNCHANGED <<args, alertVars, oldData, diff>>

NextImport == ImportScheduleData

SpecImport == InitImport /\ [][NextImport]_vars

\* the records of the feed that are imported, by their position in the feed
ImportedRecords == { i \in DOMAIN args.scheduleData : matchesTarget(args.scheduleData[i], args.targetDate) }
\* the feed position of the record a sheet row was written from; rows that
\* are equal in all cells are taken in feed order
RowsLike(k) == { m \in DOMAIN newData : newData[m] = newData[k] }
RecordsLike(k) == { i \in ImportedRecords : writtenRow(args.scheduleData[i]) = newData[k] }
RecordOf(k) == NthOf(RecordsLike(k), Cardinality({ m \in RowsLike(k) : m <= k }))

\* C18: after an import column B of every imported row holds the flight Code
\* of its record and column C the registration, the fields the alert check
\* and the diff read there.
C18_CodeInColumnB ==
  fn = "importScheduleData" =>
    \A k \in DOMAIN newData :
      \E i \in ImportedRecords :
        /\ newData[k][1] = args.scheduleData[i].LegDate
        /\ newData[k][2] = args.scheduleData[i].Code
        /\ newData[k][3] = args.scheduleData[i].VehicleReg

\* C19: after importScheduleData the rows are in ascending order of the
\* flight Code, rows with the same Code are in the order of the feed, and
\* the rows are those of the imported records.
C19_SortedByCodeStable ==
  fn = "importScheduleData" =>
    /\ Len(newData) = Cardinality(ImportedRecords)
    /\ \A k \in DOMAIN newData : RecordsLike(k) # {}
    /\ \A k, m \in DOMAIN newData :
         k < m =>
           /\ ~textBefore(FlightCode(newData[m]), FlightCode(newData[k]))
           /\ FlightCode(newData[m]) = FlightCode(newData[k]) => RecordOf(k) < RecordOf(m)

-----------------------------------------------------------------------------
(* Target date of a feed *)

\* the trimmed, non-empty LegDate texts of the feed, in feed order
RECURSIVE dateStrs(_)
dateStrs(scheduleData) ==
  IF Len(scheduleData) = 0 THEN << >>
  ELSE (IF trim(Head(scheduleData).LegDate) # "" THEN <<trim(Head(scheduleData).LegDate)>> ELSE << >>)
         \o dateStrs(Tail(scheduleData))

\* dateCounts[dateStr]
dateCount(strs, dateStr) == Cardinality({ i \in DOMAIN strs : strs[i] = dateStr })

\* A property name that is a canonical array index ("0", "20250401") is
\* enumerated before all other names, in ascending numeric order; the other
\* names follow in the order of their creation.
ArrayIndexLimit == "4294967295"
arrayIndex(key) ==
  /\ allDigits(key)
  /\ (Len(key) = 1 \/ SubSeq(key, 1, 1) # "0")
  /\ (Len(key) < Len(ArrayIndexLimit)
        \/ (Len(key) = Len(ArrayIndexLimit) /\ textBefore(key, ArrayIndexLimit)))
\* numeric order of two array indices
indexBefore(a, b) == Len(a) < Len(b) \/ (Len(a) = Len(b) /\ textBefore(a, b))
firstAt(strs, key) == CHOOSE i \in DOMAIN strs : strs[i] = key /\ \A j \in 1..(i - 1) : strs[j] # key
enumeratedBefore(strs, a, b) ==
  IF arrayIndex(a) /\ arrayIndex(b) THEN indexBefore(a, b)
  ELSE IF arrayIndex(a) THEN TRUE
  ELSE IF arrayIndex(b) THEN FALSE
  ELSE firstAt(strs, a) < firstAt(strs, b)
\* Object.keys(dateCounts)
RECURSIVE objectKeys(_, _)
objectKeys(strs, keys) ==
  IF keys = {} THEN << >>
  ELSE LET first == CHOOSE a \in keys : \A b \in keys \ {a} : enumeratedBefore(strs, a, b)
       IN <<first>> \o objectKeys(strs, keys \ {first})

\* the loop over the keys: a later key replaces the choice only with a
\* strictly higher count
RECURSIVE mostCommonFrom(_, _, _, _)
mostCommonFrom(strs, keys, mostCommonDate, maxCount) ==
  IF Len(keys) = 0 THEN mostCommonDate
  ELSE IF dateCount(strs, Head(keys)) > maxCount
       THEN mostCommonFrom(strs, Tail(keys), Head(keys), dateCount(strs, Head(keys)))
       ELSE mostCommonFrom(strs, Tail(keys), mostCommonDate, maxCount)

\* `new Date().toLocaleDateString()`, the date of the run
TodayLocaleDate == "4/1/2025"

findMostCommonDate(scheduleData) ==
  LET strs == dateStrs(scheduleData)
      mostCommonDate == mostCommonFrom(strs, objectKeys(strs, { strs[i] : i \in DOMAIN strs }), "", 0)
  IN IF mostCommonDate # "" THEN mostCommonDate ELSE TodayLocaleDate

MaxFeed == 3

\* day-Mon-year texts, one of them with a leading blank, all-digit dates and
\* the empty cell
FeedDates == { "1-Apr-25", " 1-Apr-25", "30-Mar-25", "20250402", "20250401", "" }

InitCommon ==
  /\ fn = "none"
  /\ \E dates \in UNION { [1..n -> FeedDates] : n \in 1..MaxFeed } :
       args = [scheduleData |-> [i \in DOMAIN dates |-> flightOn(dates[i])]]
  /\ ret = NoReturn
  /\ IdleAlert
  /\ IdleDiff

CallFindMostCommonDate ==
  /\ fn = "none"
  /\ fn' = "findMostCommonDate"
  /\ ret' = [date |-> findMostCommonDate(args.scheduleData)]
  /\ UNCHANGED <<args, alertVars, diffVars>>

NextCommon == CallFindMostCommonDate

SpecCommon == InitCommon /\ [][NextCommon]_vars

\* the dates of the feed and how often each occurs
FeedDateAt(i) == trim(args.scheduleData[i].LegDate)
Dated == { i \in DOMAIN args.scheduleData : FeedDateAt(i) # "" }
Occurrences(i) == Cardinality({ j \in Dated : FeedDateAt(j) = FeedDateAt(i) })

\* C21: findMostCommonDate returns the date that occurs most often in the
\* feed, and of several dates with the highest count the one that appears
\* first in the feed.
C21_MostFrequentFirstSeen ==
  (fn = "findMostCommonDate" /\ Dated # {}) =>
    \E i \in Dated :
      /\ ret.date = FeedDateAt(i)
      /\ \A j \in Dated : Occurrences(j) <= Occurrences(i)
      /\ \A j \in Dated : (j < i /\ Occurrences(j) = Occurrences(i)) => FeedDateAt(j) = FeedDateAt(i)

-----------------------------------------------------------------------------
(* Import of a revised schedule: retire the day's sheet, create the new one *)

monthNames == <<"JAN", "FEB", "MAR", "APR", "MAY", "JUN", "JUL", "AUG", "SEP", "OCT", "NOV", "DEC">>

\* formatSheetDate: "01APR"; an Invalid Date gives NaN and no month name
formatSheetDate(dateStr) ==
  LET date == newDate(dateStr)
  IN IF date.valid THEN padStart2(date.day) \o monthNames[date.month] ELSE "NaNundefined"

\* `${hours}${minutes}` of the instant, UTC, each padded to two digits
timeStamp(now) ==
  padStart2((now % MinutesPerDay) \div 60) \o padStart2((now % MinutesPerDay) % 60)

startsWith(str, prefix) == Len(str) >= Len(prefix) /\ SubSeq(str, 1, Len(prefix)) = prefix
\* `name.split('_old_')[1]` of a name that starts with `${newSheetName}_old_`
afterOld(name, newSheetName) == SubSeq(name, Len(newSheetName) + 6, Len(name))
\* `parseInt(text) || 0`
parseIntOrZero(text) == IF allDigits(text) THEN toNumber(text) ELSE 0

sheetNamed(ss, name) == { i \in DOMAIN ss : ss[i].name = name }
NoSheet == "none"

\* findExistingSheet: of the sheets named `${newSheetName}_old_...` the one
\* with the greatest number after "_old_", the first in sheet order among
\* equals; NoSheet when there is none
findExistingSheet(ss, newSheetName) ==
  LET oldSheets == { i \in DOMAIN ss : startsWith(ss[i].name, newSheetName \o "_old_") }
      timestamp(i) == parseIntOrZero(afterOld(ss[i].name, newSheetName))
  IN IF oldSheets = {} THEN NoSheet
     ELSE ss[CHOOSE i \in oldSheets :
               \A j \in oldSheets :
                 timestamp(j) < timestamp(i) \/ (timestamp(j) = timestamp(i) /\ i <= j)].name

\* duplicateTemplateSheet up to the copy of the template: the sheet that
\* has the new name is renamed; setName throws when the old name is taken
retiredName(newName, now) == newName \o "_old_" \o timeStamp(now)
nameTaken(ss, newName, now) ==
  sheetNamed(ss, newName) # {} /\ sheetNamed(ss, retiredName(newName, now)) # {}
renamedExisting(ss, newName, now) ==
  [i \in DOMAIN ss |->
     IF ss[i].name = newName THEN [ss[i] EXCEPT !.name = retiredName(newName, now)] ELSE ss[i]]

dataOf(ss, name) == ss[CHOOSE i \in sheetNamed(ss, name) : TRUE].data

\* processScheduleEmail for a message with schedule data.  failAt names the
\* call that throws: none, the copy of the template, or a setValue of the
\* import (after `partial` records were written).  The result is the
\* spreadsheet left behind, the diff, and what the run did.
processScheduleEmail(ss, scheduleData, now, failAt, partial) ==
  LET sheetDate    == findMostCommonDate(scheduleData)
      newSheetName == formatSheetDate(sheetDate)
      existed      == sheetNamed(ss, newSheetName) # {}
      retired      == IF existed THEN retiredName(newSheetName, now) ELSE NoSheet
      renamed      == renamedExisting(ss, newSheetName, now)
      created      == renamed \o <<[name |-> newSheetName, data |-> << >>]>>
      existing     == findExistingSheet(created, newSheetName)
      filteredData == filterDataByDate(scheduleData, sheetDate)
      rows         == importedRows(scheduleData, sheetDate)
      imported     == [created EXCEPT ![Len(created)].data = rows]
      half         == [created EXCEPT ![Len(created)].data =
                         [i \in 1..partial |-> writtenRow(filteredData[i])]]
  IN IF nameTaken(ss, newSheetName, now)
     THEN [sheets |-> ss, diff |-> NoDiff,
           ret |-> [failed |-> TRUE, sheet |-> newSheetName, retired |-> NoSheet, baseline |-> NoSheet]]
     ELSE IF failAt = "copyTo"
     THEN [sheets |-> renamed, diff |-> NoDiff,
           ret |-> [failed |-> TRUE, sheet |-> newSheetName, retired |-> retired, baseline |-> NoSheet]]
     ELSE IF failAt = "setValue" /\ partial < Len(filteredData)
     THEN [sheets |-> half, diff |-> NoDiff,
           ret |-> [failed |-> TRUE, sheet |-> newSheetName, retired |-> retired, baseline |-> NoSheet]]
     ELSE [sheets |-> imported,
           diff |-> IF enableChangeDetection /\ existing # NoSheet
                    THEN detectAndHighlightChanges(dataOf(created, existing), rows)
                    ELSE NoDiff,
           ret |-> [failed |-> FALSE, sheet |-> newSheetName, retired |-> retired, baseline |-> existing]]

MaxRevisions == 2

\* feeds of one schedule day
RevisionFeeds ==
  { <<ImportFlight("1-Apr-25", "LYAAA", "BT202")>>,
    <<ImportFlight("1-Apr-25", "LYBBB", "BT101"), ImportFlight("1-Apr-25", "LYAAA", "BT202")>> }
\* 31 March 23:00 and 23:30, 1 April 09:00 (minutes since the start of 31 March)
RevisionInstants == { 1380, 1410, MinutesPerDay + 540 }
FailurePoints == { "none", "copyTo", "setValue" }

TemplateSheet == [name |-> templateSheetName, data |-> << >>]

\* the sheet of the day exists from an earlier import
InitRevise ==
  /\ IdleStatus
  /\ \E scheduleData \in RevisionFeeds :
       sheets = <<TemplateSheet,
                  [name |-> "01APR", data |-> importedRows(scheduleData, "1-Apr-25")]>>
  /\ clock = [now |-> 1380, runs |-> 0]
  /\ mail = NoMail
  /\ IdleDiff

ProcessScheduleEmail ==
  /\ clock.runs < MaxRevisions
  /\ \E scheduleData \in RevisionFeeds, now \in RevisionInstants, failAt \in FailurePoints,
        partial \in 0..1 :
       /\ now >= clock.now
       /\ \E run \in { processScheduleEmail(sheets, scheduleData, now, failAt, partial) } :
            /\ sheets' = run.sheets
            /\ diff' = run.diff
            /\ ret' = run.ret
       /\ clock' = [now |-> now, runs |-> clock.runs + 1]
  /\ fn' = "processScheduleEmail"
  /\ UNCHANGED <<args, mail, oldData, newData>>

NextRevise == ProcessScheduleEmail

SpecRevise == InitRevise /\ [][NextRevise]_vars

\* C22: during an import for a day that has a sheet, the previous sheet is
\* retired only after the new one is written: when the import fails, the
\* sheet that was the day's sheet before the run is still the day's sheet,
\* with its contents unchanged.
C22_FailedImportKeepsCurrentSheet ==
  [][ (ret'.failed /\ sheetNamed(sheets, ret'.sheet) # {}) =>
        /\ sheetNamed(sheets', ret'.sheet) = sheetNamed(sheets, ret'.sheet)
        /\ dataOf(sheets', ret'.sheet) = dataOf(sheets, ret'.sheet) ]_vars

\* C26: the sheet used as the baseline of the diff is the version of the
\* day's sheet that this import has just retired, whenever earlier versions
\* were retired.
C26_BaselineIsJustRetired ==
  (fn = "processScheduleEmail" /\ ~ret.failed /\ ret.retired # NoSheet) =>
    ret.baseline = ret.retired

-----------------------------------------------------------------------------
(* Runs of processFlightScheduleEmails over the labelled threads of the    *)
(* mailbox.  A run is split at its calls to Gmail and to the spreadsheet,   *)
(* since two runs (two firings of the trigger, or a firing and a run from   *)
(* the menu) can be in progress at once.  The mailbox is in oldData, the    *)
(* Processed label and the error mails in mail, the runs in args.           *)

MaxThreads == 2
MaxRuns == 2

Invocations == {1, 2}

\* a thread of one message: a schedule of 1 April, one of 2 April, and a
\* schedule whose import throws at the copy of the template
MailThreads ==
  { [scheduleData |-> <<ImportFlight("1-Apr-25", "LYAAA", "BT202")>>, failAt |-> "none"],
    [scheduleData |-> <<ImportFlight("2-Apr-25", "LYBBB", "BT101")>>, failAt |-> "none"],
    [scheduleData |-> <<ImportFlight("1-Apr-25", "LYBBB", "BT101")>>, failAt |-> "copyTo"] }

NoRun == [pc |-> "idle", threads |-> << >>, next |-> 1, imported |-> {}, threw |-> 0]

\* GmailApp.search(`label:${gmailLabel} -label:${processedLabel}`): the
\* threads without the Processed label, in the order of the mailbox
search(threads, processed) ==
  SelectSeq([t \in DOMAIN threads |-> t], LAMBDA t : t \notin processed)

InitMailbox ==
  /\ fn = "none"
  /\ args = [i \in Invocations |-> NoRun]
  /\ ret = NoReturn
  /\ sheets = <<TemplateSheet>>
  /\ clock = [now |-> 1380, runs |-> 0]
  /\ mail = [processed |-> {}, errors |-> 0]
  /\ oldData \in UNION { [1..n -> MailThreads] : n \in 1..MaxThreads }
  /\ newData = << >>
  /\ diff = NoDiff

\* the start of a run up to the search; the run returns when nothing is found
StartRun(i) ==
  /\ args[i].pc # "running"
  /\ clock.runs < MaxRuns
  /\ LET threads == search(oldData, mail.processed)
     IN args' = [args EXCEPT ![i] = [NoRun EXCEPT !.pc = IF threads = << >> THEN "done" ELSE "running",
                                                  !.threads = threads]]
  /\ clock' = [clock EXCEPT !.runs = @ + 1]
  /\ fn' = "processFlightScheduleEmails"
  /\ UNCHANGED <<ret, sheets, mail, oldData, newData, diff>>

\* one turn of `threads.forEach`: the message of the thread is imported and
\* the thread is labelled; an exception of the import leaves the loop and
\* the run ends in its catch block, which sends the error mail
ImportThread(i) ==
  /\ args[i].pc = "running"
  /\ args[i].next <= Len(args[i].threads)
  /\ \E elapsed \in {0, 1} :
       \E run \in { processScheduleEmail(sheets, oldData[args[i].threads[args[i].next]].scheduleData,
                                         clock.now + elapsed,
                                         oldData[args[i].threads[args[i].next]].failAt, 0) } :
          /\ sheets' = run.sheets
          /\ diff' = run.diff
          /\ ret' = run.ret
          /\ clock' = [clock EXCEPT !.now = @ + elapsed]
          /\ IF run.ret.failed
             THEN /\ args' = [args EXCEPT ![i].pc = "failed",
                                          ![i].threw = args[i].threads[args[i].next]]
                  /\ mail' = [mail EXCEPT !.errors = @ + 1]
             ELSE /\ args' = [args EXCEPT ![i].next = @ + 1,
                                          ![i].imported = @ \cup {args[i].threads[args[i].next]}]
                  /\ mail' = [mail EXCEPT !.processed = @ \cup {args[i].threads[args[i].next]}]
  /\ fn' = "processScheduleEmail"
  /\ UNCHANGED <<oldData, newData>>

\* the end of the loop
FinishRun(i) ==
  /\ args[i].pc = "running"
  /\ args[i].next > Len(args[i].threads)
  /\ args' = [args EXCEPT ![i].pc = "done"]
  /\ fn' = "processFlightScheduleEmails"
  /\ UNCHANGED <<ret, sheets, clock, mail, oldData, newData, diff>>

NextMailbox == \E i \in Invocations : StartRun(i) \/ ImportThread(i) \/ FinishRun(i)

SpecMailbox == InitMailbox /\ [][NextMailbox]_vars

\* C23: two runs that are in progress at once have not both imported the
\* same thread (and so have not both created the sheet of its day).
C23_OverlappingRunsImportDisjointThreads ==
  \A i, j \in Invocations :
    (i # j /\ args[i].pc = "running" /\ args[j].pc = "running") =>
      args[i].imported \cap args[j].imported = {}

\* C27: when a run has ended, every thread it found whose own import does
\* not fail is labelled Processed, also when the import of another thread
\* of the run failed.
C27_OtherThreadsOfTheRunProcessed ==
  \A i \in Invocations :
    args[i].pc \in {"done", "failed"} =>
      \A k \in DOMAIN args[i].threads :
        LET thread == args[i].threads[k]
        IN (oldData[thread].failAt = "none" /\ args[i].threw # thread) =>
             thread \in mail.processed

-----------------------------------------------------------------------------
(* The 5-minute trigger: processFlightScheduleEmailsSmart over one day *)

frequentCheckStartHour == 18
frequentCheckEndHour == 23
\* `.everyMinutes(5)` of the installed trigger
everyMinutes == 5

inFrequentWindow(currentHour) ==
  currentHour >= frequentCheckStartHour /\ currentHour <= frequentCheckEndHour

\* whether a firing at this minute of the day calls processFlightScheduleEmails
processes(now) ==
  LET currentHour   == now \div 60
      currentMinute == now % 60
  IN IF inFrequentWindow(currentHour) THEN TRUE
     ELSE (currentMinute >= 0 /\ currentMinute <= 4) \/ (currentMinute >= 30 /\ currentMinute <= 34)

\* `threads.forEach` of a whole run: imports and labels the threads found,
\* in order, until an import throws
RECURSIVE importedThreads(_, _, _, _, _)
\* the rest of the loop after the import `run` of the first thread found
labelled(run, threads, found, processed, now) ==
  IF run.ret.failed
  THEN [sheets |-> run.sheets, processed |-> processed, failed |-> TRUE]
  ELSE importedThreads(run.sheets, threads, Tail(found), processed \cup {Head(found)}, now)
importedThreads(ss, threads, found, processed, now) ==
  IF found = << >> THEN [sheets |-> ss, processed |-> processed, failed |-> FALSE]
  ELSE labelled(processScheduleEmail(ss, threads[Head(found)].scheduleData, now,
                                     threads[Head(found)].failAt, 0),
                threads, found, processed, now)

\* a whole run of processFlightScheduleEmails at one instant
mailAfter(run, box) ==
  [sheets |-> run.sheets,
   mail |-> [processed |-> run.processed,
             errors |-> IF run.failed THEN box.errors + 1 ELSE box.errors]]
processFlightScheduleEmails(ss, threads, box, now) ==
  mailAfter(importedThreads(ss, threads, search(threads, box.processed), box.processed, now), box)

\* the mailbox holds no thread or one; the trigger first fires in the
\* first minutes of the day
InitSmart ==
  /\ fn = "none"
  /\ args = [i \in Invocations |-> NoRun]
  /\ ret = NoReturn
  /\ sheets = <<TemplateSheet>>
  /\ clock \in [now : 0..(everyMinutes - 1), runs : {0}]
  /\ mail = [processed |-> {}, errors |-> 0]
  /\ oldData \in { << >> } \cup { <<thread>> : thread \in MailThreads }
  /\ newData = << >>
  /\ diff = NoDiff

\* one firing of the trigger, at clock.now; ret holds the time of the
\* firing, whether it ran the import, and the number of imports run in the
\* hour of the firing so far
ProcessFlightScheduleEmailsSmart ==
  /\ clock.now < MinutesPerDay
  /\ \E ran \in { processes(clock.now) },
        run \in { processFlightScheduleEmails(sheets, oldData, mail, clock.now) },
        earlier \in { IF fn = "processFlightScheduleEmailsSmart" /\ ret.at \div 60 = clock.now \div 60
                      THEN ret.runsInHour ELSE 0 } :
       /\ ret' = [at |-> clock.now, ran |-> ran,
                  runsInHour |-> earlier + (IF ran THEN 1 ELSE 0)]
       /\ sheets' = IF ran THEN run.sheets ELSE sheets
       /\ mail' = IF ran THEN run.mail ELSE mail
       /\ clock' = [clock EXCEPT !.now = @ + everyMinutes]
  /\ fn' = "processFlightScheduleEmailsSmart"
  /\ UNCHANGED <<args, oldData, newData, diff>>

NextSmart == ProcessFlightScheduleEmailsSmart

SpecSmart == InitSmart /\ [][NextSmart]_vars

\* C24: every firing of the trigger between 17:00 and 22:00 UTC runs the
\* import, and in every hour before 17:00 and after 22:59 the import has
\* run exactly once when the hour's last firing is over.
C24_EveryFiringInWindowHourlyOutside ==
  fn = "processFlightScheduleEmailsSmart" =>
    /\ (ret.at >= 17 * 60 /\ ret.at <= 22 * 60) => ret.ran
    /\ ((ret.at \div 60 < 17 \/ ret.at \div 60 > 22) /\ ret.at % 60 >= 60 - everyMinutes) =>
         ret.runsInHour = 1

-----------------------------------------------------------------------------
(* The project's triggers: the setup functions and the weekly health check. *)
(* The triggers are held in args, in the order of getProjectTriggers; mail   *)
(* is the sequence of the subjects of the mails sent, without their signs.   *)

MaxCalls == 4

TriggerActive == "Flight Schedule Import - Trigger Active"
AlertsActivated == "Flight Plan Update Alerts Activated"
WeeklyStatus == "Flight Schedule Import - Weekly Status"
HealthCheckFailed == "Flight Schedule Import - Health Check Failed"

\* the triggers left after `if (handlers ...) ScriptApp.deleteTrigger(trigger)`
RECURSIVE withoutHandlers(_, _)
withoutHandlers(triggers, handlers) ==
  IF triggers = << >> THEN << >>
  ELSE IF Head(triggers) \in handlers THEN withoutHandlers(Tail(triggers), handlers)
       ELSE <<Head(triggers)>> \o withoutHandlers(Tail(triggers), handlers)

\* setupSmartTriggers: the 5-minute trigger and the Monday health check
setupSmartTriggers(triggers) ==
  triggers \o <<"processFlightScheduleEmailsSmart", "weeklyHealthCheck">>

\* setupEmailTrigger: every trigger of the project is deleted first
setupEmailTrigger(triggers) == setupSmartTriggers(<< >>) \o <<"cleanupOldSheets">>

\* the handlers whose triggers setupUrgentUpdateAlerts deletes, in each of
\* the two versions of the script
UrgentHandlers ==
  { {"checkUrgentFlightUpdates"}, {"checkUrgentFlightUpdates", "forceSheetRefresh"} }

setupUrgentUpdateAlerts(triggers, handlers) ==
  withoutHandlers(triggers, handlers) \o <<"checkUrgentFlightUpdates">>

setupDailyTrigger(triggers) ==
  withoutHandlers(triggers, {"processFlightScheduleEmails"}) \o <<"processFlightScheduleEmails">>

\* `triggers.find(t => t.getHandlerFunction() === 'processFlightScheduleEmails')`
mainTrigger(triggers) ==
  \E i \in DOMAIN triggers : triggers[i] = "processFlightScheduleEmails"

\* the subject of the mail of weeklyHealthCheck, authorization being valid
weeklyHealthCheck(triggers) ==
  IF mainTrigger(triggers) THEN WeeklyStatus ELSE HealthCheckFailed

\* a project without triggers
InitTriggers ==
  /\ fn = "none"
  /\ args = [triggers |-> << >>]
  /\ ret = NoReturn
  /\ sheets = << >>
  /\ clock = [calls |-> 0]
  /\ mail = << >>
  /\ IdleDiff

Called(name) ==
  /\ clock.calls < MaxCalls
  /\ clock' = [calls |-> clock.calls + 1]
  /\ fn' = name
  /\ UNCHANGED <<ret, sheets, oldData, newData, diff>>

SetupEmailTrigger ==
  /\ Called("setupEmailTrigger")
  /\ args' = [triggers |-> setupEmailTrigger(args.triggers)]
  /\ mail' = Append(mail, TriggerActive)

SetupUrgentUpdateAlerts ==
  /\ Called("setupUrgentUpdateAlerts")
  /\ \E handlers \in UrgentHandlers :
       args' = [triggers |-> setupUrgentUpdateAlerts(args.triggers, handlers)]
  /\ mail' = Append(mail, AlertsActivated)

SetupDailyTrigger ==
  /\ Called("setupDailyTrigger")
  /\ args' = [triggers |-> setupDailyTrigger(args.triggers)]
  /\ mail' = mail

WeeklyHealthCheck ==
  /\ Called("weeklyHealthCheck")
  /\ args' = args
  /\ mail' = Append(mail, weeklyHealthCheck(args.triggers))

NextTriggers ==
  SetupEmailTrigger \/ SetupUrgentUpdateAlerts \/ SetupDailyTrigger \/ WeeklyHealthCheck

SpecTriggers == InitTriggers /\ [][NextTriggers]_vars

Sent(subject) == \E i \in DOMAIN mail : mail[i] = subject
TriggersOf(triggers, handler) == { i \in DOMAIN triggers : triggers[i] = handler }

\* C28: once setupUrgentUpdateAlerts has been called, exactly one trigger
\* of checkUrgentFlightUpdates exists after every further call of a setup
\* function; setupUrgentUpdateAlerts keeps the triggers of the other
\* handlers, and setupEmailTrigger keeps the checkUrgentFlightUpdates trigger.
C28_OneUrgentTriggerKept ==
  [][ /\ (Sent(AlertsActivated)' /\ fn' \in {"setupEmailTrigger", "setupUrgentUpdateAlerts"}) =>
           Cardinality(TriggersOf(args'.triggers, "checkUrgentFlightUpdates")) = 1
      /\ fn' = "setupUrgentUpdateAlerts" =>
           withoutHandlers(args'.triggers, {"checkUrgentFlightUpdates"})
             = withoutHandlers(args.triggers, {"checkUrgentFlightUpdates"})
      /\ fn' = "setupEmailTrigger" =>
           Cardinality(TriggersOf(args'.triggers, "checkUrgentFlightUpdates"))
             = Cardinality(TriggersOf(args.triggers, "checkUrgentFlightUpdates")) ]_vars

\* C29: a health check that runs after setupEmailTrigger has installed the
\* triggers sends the Weekly Status mail, and not the Health Check Failed
\* mail with "Main trigger not found".
C29_HealthCheckFindsMainTrigger ==
  (fn = "weeklyHealthCheck" /\ Sent(TriggerActive)) => mail[Len(mail)] = WeeklyStatus

-----------------------------------------------------------------------------
(* Departed flights *)

\* C30: a flight whose departure has passed (hoursUntil < 0) is reported
\* neither ActionDue nor ActionPending, and whenever ActionPending with r
\* remaining hours is reported the flight has not departed and r is
\* smaller than hoursUntil.
C30_DepartedNeverDueOrPending ==
  (fn \in {"FLIGHT_UPDATE_STATUS", "calculateFlightUpdateStatus"}
     /\ ArgDatesValid /\ ArgTimesValid) =>
    /\ ArgHoursUntil < 0 => (ret.status # ActionDue /\ ~IsPending(ret.status))
    /\ IsPending(ret.status) =>
         /\ ArgHoursUntil >= 0
         /\ updateHour(ArgStd) - ArgNow < ArgHoursUntil

-----------------------------------------------------------------------------
(* Reference frame of a periodic evaluation *)

\* the sheets whose cells O2 and N3 a check has set
RefreshedSheets == { i \in DOMAIN sheets : sheets[i].O2.k = "date" /\ sheets[i].N3.k = "date" }

\* C25: the today-date (O2) and the current time (N3) of an evaluation are
\* the same instant read in UTC: O2 is midnight UTC of the day of N3, and
\* for every flight row daysDiff*24 + (stdHours - nowHours) is the time
\* from that instant to the departure (flight date plus STD, UTC), whatever
\* the script's time zone is.
C25_TodayAndNowInOneUtcFrame ==
  \A i \in RefreshedSheets :
    /\ sheets[i].O2 = DayCell(sheets[i].N3.v \div MinutesPerDay)
    /\ \A j \in DOMAIN sheets[i].rows :
         LET row == sheets[i].rows[j]
         IN (row.date.k = "date" /\ row.std.k = "date") =>
              hoursUntil(daysDiff(row.date, sheets[i].O2), utcHours(row.std), utcHours(sheets[i].N3))
                = MinUnits((row.date.v + row.std.v) - sheets[i].N3.v)

====
